---- MODULE Spec2Model ----
(***************************************************************************)
(* Model of the Dashboard route of the pickleball stats PWA                *)
(* (src/routes/Dashboard.tsx): the Fault Tally, the new-game form, the     *)
(* addGame and loadGames async handlers, and the hosted games table they   *)
(* talk to.  Every await of the source is a suspension point: the steps    *)
(* between two awaits are one atomic action.                               *)
(***************************************************************************)
EXTENDS Integers, Sequences, FiniteSets, TLC

(* ------------------------------ bounds --------------------------------- *)
\* form edits (taps, typed values) the user makes in one behaviour
MaxTaps == 1
\* Add Game presses in one behaviour
MaxAdds == 2
\* sign-outs / sign-ins / expiries of the shared session in one behaviour
MaxSessionChanges == 1

(* ----------------------------- constants ------------------------------- *)
FaultKeys == {"serve", "return", "net", "long", "setup"}

Users == {"u1", "u2"}

\* `user` is null: nobody is signed in
NoUser == "none"

\* error === null
NullText == "null"

\* location === null
NullLoc == <<"NULL">>

\* date input cleared: new Date("") is an Invalid Date
EmptyDate == 0

\* time input cleared: ""
EmptyTime == <<>>

MinutesPerDay == 24 * 60

InitMyPoints == 11

InitOppPoints == 8

QueryLimit == 25

\* messages carried by the collaborators' error objects
AuthErrors == {"invalid JWT"}

DbErrors == {"db error"}

NotSignedIn == "Not signed in"

InvalidTime == "Invalid time value"

\* an error object without a message property
NoMessage == "undefined"

(* ------------------------------ inputs --------------------------------- *)
Court3 == <<"C", "o", "u", "r", "t", " ", "3">>

LocationInputs == {<<" ", " ">>, Court3, <<" ">> \o Court3 \o <<" ">>}

DateInputs == {EmptyDate, 10}

TimeInputs == {EmptyTime, <<23, 30>>}

\* minutes east of UTC of the browser's local zone
TzOffsets == {-300, 0, 330}

LoadIds == {"m1", "m2", "chain"}

(* --------------------------- pure functions ---------------------------- *)
Max(a, b) == IF a >= b THEN a ELSE b

Min(a, b) == IF a <= b THEN a ELSE b

ZeroFaults == [k \in FaultKeys |-> 0]

\* the updater without its floor
ChangeFaultUnclamped(prev, key, delta) == [prev EXCEPT ![key] = prev[key] + delta]

\* the updater writing a property named "key" instead of the counter
ChangeFaultWrongKey(prev, key, delta) == prev

\* the updater passed to setFaults by changeFault
ChangeFaultUpdater(prev, key, delta) ==
    [prev EXCEPT ![key] = Max(0, prev[key] + delta)]

\* the decrement without its floor
DecPointsUnclamped(p) == p - 1

\* Math.max(0, p - 1)
DecPoints(p) == Max(0, p - 1)

IncPoints(p) == p + 1

IsSpace(c) == c = " "

RECURSIVE TrimStart(_)
TrimStart(s) ==
    IF s = <<>> THEN <<>>
    ELSE IF IsSpace(Head(s)) THEN TrimStart(Tail(s)) ELSE s

RECURSIVE TrimEnd(_)
TrimEnd(s) ==
    IF s = <<>> THEN <<>>
    ELSE IF IsSpace(s[Len(s)]) THEN TrimEnd(SubSeq(s, 1, Len(s) - 1)) ELSE s

\* String.prototype.trim
Trim(s) == TrimEnd(TrimStart(s))

\* location || null, without the trim
LocationUntrimmed(loc) == IF loc = <<>> THEN NullLoc ELSE loc

\* location?.trim() || null
LocationValue(loc) == IF Trim(loc) = <<>> THEN NullLoc ELSE Trim(loc)

\* const [h = "00", m = "00"] = (timeStr || "").split(":"), then Number(h), Number(m)
TimeHours(timeStr) == IF timeStr = EmptyTime THEN 0 ELSE timeStr[1]

TimeMinutes(timeStr) == IF timeStr = EmptyTime THEN 0 ELSE timeStr[2]

\* new Date("YYYY-MM-DD"): midnight UTC of that day, in minutes since the epoch
ParseDate(dateStr) == dateStr * MinutesPerDay

\* the local calendar day (in zone tzo) of the instant t
LocalDay(t, tzo) == (t + tzo) \div MinutesPerDay

\* the local minute of day (in zone tzo) of the instant t
LocalMinuteOfDay(t, tzo) == (t + tzo) % MinutesPerDay

\* d.setHours(h, m, 0, 0): keeps d's local calendar day, replaces its local time
SetHours(t, h, m, tzo) == LocalDay(t, tzo) * MinutesPerDay + h * 60 + m - tzo

\* toPlayedAt for a valid date; the result is the UTC instant toISOString prints
toPlayedAt(dateStr, timeStr, tzo) ==
    SetHours(ParseDate(dateStr), TimeHours(timeStr), TimeMinutes(timeStr), tzo)

\* the handler's own text whatever the error carries
ErrFallback(e, fallback) == fallback

\* e.message ?? fallback
ErrText(e, fallback) == IF e = NoMessage THEN fallback ELSE e

(* ------------------------------ the store ------------------------------ *)
\* the row-level-security policy of the games table: auth.uid() = user_id
RlsPolicy(uid, row) == uid = row.user_id

\* the object addGame passes to insert()
InsertPayload(uid, f, tzo) ==
    [user_id       |-> uid,
     played_at     |-> toPlayedAt(f.date, f.time, tzo),
     my_points     |-> f.myPoints,
     opp_points    |-> f.oppPoints,
     location      |-> LocationValue(f.location),
     serve_faults  |-> f.faults["serve"],
     return_faults |-> f.faults["return"],
     into_net      |-> f.faults["net"],
     too_long      |-> f.faults["long"],
     setup_kill    |-> f.faults["setup"]]

\* id bigint generated always as identity: the store numbers the rows
StoredRow(st, payload) ==
    [id            |-> Len(st) + 1,
     user_id       |-> payload.user_id,
     played_at     |-> payload.played_at,
     my_points     |-> payload.my_points,
     opp_points    |-> payload.opp_points,
     location      |-> payload.location,
     serve_faults  |-> payload.serve_faults,
     return_faults |-> payload.return_faults,
     into_net      |-> payload.into_net,
     too_long      |-> payload.too_long,
     setup_kill    |-> payload.setup_kill]

\* an insert that skips a payload the table already holds
InsertUnlessDuplicate(st, payload) ==
    IF \E i \in 1..Len(st) : [st[i] EXCEPT !.id = Len(st) + 1] = StoredRow(st, payload)
    THEN st
    ELSE Append(st, StoredRow(st, payload))

\* an upsert on (user_id, played_at): a row of the same user and time is replaced
InsertUpsert(st, payload) ==
    IF \E i \in 1..Len(st) : st[i].user_id = payload.user_id
                              /\ st[i].played_at = payload.played_at
    THEN LET i == CHOOSE j \in 1..Len(st) : st[j].user_id = payload.user_id
                                            /\ st[j].played_at = payload.played_at
         IN  [st EXCEPT ![i] = [StoredRow(st, payload) EXCEPT !.id = i]]
    ELSE Append(st, StoredRow(st, payload))

\* insert(): the table after the row is appended
InsertRow(st, payload) == Append(st, StoredRow(st, payload))

\* the column list of select(): every column but user_id
SelectCols(row) ==
    [id            |-> row.id,
     played_at     |-> row.played_at,
     my_points     |-> row.my_points,
     opp_points    |-> row.opp_points,
     location      |-> row.location,
     serve_faults  |-> row.serve_faults,
     return_faults |-> row.return_faults,
     into_net      |-> row.into_net,
     too_long      |-> row.too_long,
     setup_kill    |-> row.setup_kill]

\* the query without its filter, over a table without its policy
EveryUserId(st, uid, auth) == 1..Len(st)

\* .eq("user_id", uid) under the policy of the caller auth: positions of the rows returned
EqUserId(st, uid, auth) ==
    {i \in 1..Len(st) : st[i].user_id = uid /\ RlsPolicy(auth, st[i])}

\* the rows an ascending order puts first
Earliest(st, S) == {i \in S : \A j \in S : st[i].played_at <= st[j].played_at}

\* the rows of S that .order("played_at", {ascending: false}) may put first
Latest(st, S) == {i \in S : \A j \in S : st[j].played_at <= st[i].played_at}

\* .order("played_at", {ascending: false}).limit(n): every order the store may
\* return (rows with equal played_at come in an order the store chooses)
RECURSIVE OrderLimit(_, _, _)
OrderLimit(st, S, n) ==
    IF n = 0 \/ S = {} THEN {<<>>}
    ELSE UNION {{<<SelectCols(st[i])>> \o t : t \in OrderLimit(st, S \ {i}, n - 1)} :
                  i \in Latest(st, S)}

\* the whole query of loadGames
QueryGames(st, uid, auth) == OrderLimit(st, EqUserId(st, uid, auth), QueryLimit)

(* ------------------------------- state --------------------------------- *)
VARIABLES
    faults,        \* useState<Faults>: the Fault Tally
    myPoints,      \* useState<number>(11)
    oppPoints,     \* useState<number>(8)
    location,      \* useState<string>("")
    date,          \* useState: the date input's value
    time,          \* useState: the time input's value
    adding,        \* useState(false): the Add Game button is disabled while true
    error,         \* useState<string | null>(null): the error banner
    games,         \* useState<GameRow[]>([]): the displayed list
    loadingGames,  \* useState(false)
    mounted,       \* the mount effect has run
    strict,        \* the build runs every effect twice (React.StrictMode in development)
    tz,            \* the browser's local zone, minutes east of UTC
    session,       \* the user the identity collaborator's session belongs to
    store,         \* the games table, in insertion order
    loads,         \* the loadGames calls: where each is suspended, and its locals
    add,           \* the addGame call: where it is suspended, and its locals
    taps,          \* form edits made so far
    adds,          \* Add Game presses so far
    sessChanges,   \* session changes so far
    pageUser,      \* the user of the session when the page mounted
    last           \* the handler step taken last, with its arguments

formVars == <<faults, myPoints, oppPoints, location, date, time>>

viewVars == <<adding, error, games, loadingGames>>

envVars == <<mounted, strict, tz, session, store, pageUser>>

callVars == <<loads, add>>

countVars == <<taps, adds, sessChanges>>

vars == <<formVars, viewVars, envVars, callVars, countVars, last>>

\* the values the addGame closure reads: the state of the render it was created in
Form == [date |-> date, time |-> time, myPoints |-> myPoints,
         oppPoints |-> oppPoints, location |-> location, faults |-> faults]

NoForm == [date |-> EmptyDate, time |-> EmptyTime, myPoints |-> 0,
           oppPoints |-> 0, location |-> <<>>, faults |-> ZeroFaults]

NoPayload == InsertPayload(NoUser, [NoForm EXCEPT !.date = 1], 0)

\* an answer that reports an empty result as an error
OkUnlessEmpty(rows) ==
    IF rows = <<>> THEN [ok |-> FALSE, rows |-> <<>>, err |-> "no rows"]
    ELSE [ok |-> TRUE, rows |-> rows, err |-> NullText]

\* the value an await resolves to: {data, error}
Ok(rows) == [ok |-> TRUE, rows |-> rows, err |-> NullText]

Failed(e) == [ok |-> FALSE, rows |-> <<>>, err |-> e]

NoRes == Ok(<<>>)

IdleLoad == [pc |-> "idle", user |-> NoUser, res |-> NoRes]

IdleAdd == [pc |-> "idle", form |-> NoForm, user |-> NoUser,
            payload |-> NoPayload, res |-> NoRes]

Step(op) == [op |-> op, key |-> "", n |-> 0]

\* the check for a missing user left out
UserNeverMissing(u) == FALSE

\* !user
UserMissing(u) == u = NoUser

\* a reset that takes the submitted counts off the tally
FaultsMinusSubmitted(live, captured) ==
    [k \in FaultKeys |-> Max(0, live[k] - captured[k])]

\* setFaults({serve: 0, ...}) after the insert: the tally whatever it held
FaultsAfterInsert(live, captured) == ZeroFaults

\* the sum of the five counters of a tally
TallySum(f) == f["serve"] + f["return"] + f["net"] + f["long"] + f["setup"]

\* the values of the latest render
LiveForm(captured, live) == live

\* the values addGame sends: those of its closure, not of the latest render
ClosureForm(captured, live) == captured

\* user_id taken from a user remembered since the page mounted
OwnerAtLoad(callUser, loadUser) == loadUser

\* user_id of the row: the user this call's own getUser returned
OwnerId(callUser, loadUser) == callUser

(* ------------------------------- Init ---------------------------------- *)
\* the form as the component's useState calls create it, at some moment `now`
FreshForm == [date |-> 10, time |-> <<23, 30>>, myPoints |-> InitMyPoints,
              oppPoints |-> InitOppPoints, location |-> <<>>, faults |-> ZeroFaults]

\* the form after the user tapped and typed for a while
UsedForm == [date |-> 11, time |-> <<0, 0>>, myPoints |-> 0, oppPoints |-> 1,
             location |-> <<" ">> \o Court3 \o <<" ">>,
             faults |-> [k \in FaultKeys |->
                           IF k = "serve" THEN 2 ELSE IF k = "net" THEN 1
                           ELSE IF k = "setup" THEN 3 ELSE 0]]

InitForms == {FreshForm, UsedForm}

\* the zone of the browser in the behaviours of Spec
LocalTz == CHOOSE z \in TzOffsets : z < 0

\* the page before its mount effect, over a table st, in a build that runs
\* effects twice iff str, with the form f
InitWith(f, ses, st, str, tzo) ==
    /\ faults = f.faults
    /\ myPoints = f.myPoints
    /\ oppPoints = f.oppPoints
    /\ location = f.location
    /\ date = f.date
    /\ time = f.time
    /\ adding = FALSE
    /\ error = NullText
    /\ games = <<>>
    /\ loadingGames = FALSE
    /\ mounted = FALSE
    /\ strict = str
    /\ tz = tzo
    /\ session = ses
    /\ store = st
    /\ loads = [id \in LoadIds |-> IdleLoad]
    /\ add = IdleAdd
    /\ taps = 0
    /\ adds = 0
    /\ sessChanges = 0
    /\ pageUser = NoUser
    /\ last = Step("init")

Init == \E f \in InitForms, ses \in {"u1", NoUser} : InitWith(f, ses, <<>>, FALSE, LocalTz)

(* a table that earlier sessions filled: more rows of u1 than the query's   *)
(* limit, rows of u2 among them, played_at not in insertion order, and two *)
(* rows of u1 with one played_at at the limit                              *)
SeedRows == 30

SeedBase == 10 * MinutesPerDay - 400

SeedKey(i) == IF i = 18 THEN 3 ELSE (i * 7) % 31

SeedRow(i) ==
    [id            |-> i,
     user_id       |-> IF i % 10 = 0 THEN "u2" ELSE "u1",
     played_at     |-> SeedBase + 60 * SeedKey(i),
     my_points     |-> 11,
     opp_points    |-> i % 12,
     location      |-> IF i % 2 = 0 THEN NullLoc ELSE Court3,
     serve_faults  |-> i % 3,
     return_faults |-> i % 2,
     into_net      |-> 0,
     too_long      |-> i % 4,
     setup_kill    |-> 1]

SeededStore == [i \in 1..SeedRows |-> SeedRow(i)]

InitSeeded == InitWith(FreshForm, "u1", SeededStore, FALSE, LocalTz)

(* --------------------------- the form's taps --------------------------- *)
\* changeFault(key, delta), called by the editor's - and + buttons
changeFault(key, delta) ==
    /\ mounted
    /\ taps < MaxTaps
    /\ faults' = ChangeFaultUpdater(faults, key, delta)
    /\ taps' = taps + 1
    /\ last' = [op |-> "changeFault", key |-> key, n |-> delta]
    /\ UNCHANGED <<myPoints, oppPoints, location, date, time, viewVars, envVars,
                   callVars, adds, sessChanges>>

\* the - and + buttons of My Points
setMyPoints(delta) ==
    /\ mounted
    /\ taps < MaxTaps
    /\ myPoints' = IF delta < 0 THEN DecPoints(myPoints) ELSE IncPoints(myPoints)
    /\ taps' = taps + 1
    /\ last' = [op |-> "setMyPoints", key |-> "", n |-> delta]
    /\ UNCHANGED <<faults, oppPoints, location, date, time, viewVars, envVars,
                   callVars, adds, sessChanges>>

\* the - and + buttons of Opponent Points
setOppPoints(delta) ==
    /\ mounted
    /\ taps < MaxTaps
    /\ oppPoints' = IF delta < 0 THEN DecPoints(oppPoints) ELSE IncPoints(oppPoints)
    /\ taps' = taps + 1
    /\ last' = [op |-> "setOppPoints", key |-> "", n |-> delta]
    /\ UNCHANGED <<faults, myPoints, location, date, time, viewVars, envVars,
                   callVars, adds, sessChanges>>

\* onChange of the location input
setLocation(v) ==
    /\ mounted
    /\ taps < MaxTaps
    /\ v # location
    /\ location' = v
    /\ taps' = taps + 1
    /\ last' = Step("setLocation")
    /\ UNCHANGED <<faults, myPoints, oppPoints, date, time, viewVars, envVars,
                   callVars, adds, sessChanges>>

\* onChange of the date input
setDate(v) ==
    /\ mounted
    /\ taps < MaxTaps
    /\ v # date
    /\ date' = v
    /\ taps' = taps + 1
    /\ last' = Step("setDate")
    /\ UNCHANGED <<faults, myPoints, oppPoints, location, time, viewVars, envVars,
                   callVars, adds, sessChanges>>

\* onChange of the time input
setTime(v) ==
    /\ mounted
    /\ taps < MaxTaps
    /\ v # time
    /\ time' = v
    /\ taps' = taps + 1
    /\ last' = Step("setTime")
    /\ UNCHANGED <<faults, myPoints, oppPoints, location, date, viewVars, envVars,
                   callVars, adds, sessChanges>>

(* ----------------------------- the session ----------------------------- *)
\* the session the client shares with other tabs: sign-out or expiry (to no
\* user), sign-in (from no user)
SessionChange(u) ==
    /\ sessChanges < MaxSessionChanges
    /\ (session = NoUser) # (u = NoUser)
    /\ session' = u
    /\ sessChanges' = sessChanges + 1
    /\ last' = Step("session")
    /\ UNCHANGED <<formVars, viewVars, mounted, strict, tz, store, pageUser, callVars,
                   taps, adds>>

(* ------------------------------ loadGames ------------------------------ *)
\* loadGames up to its first await, for the calls of the set ids
StartedLoads(ids) ==
    [id \in LoadIds |-> IF id \in ids THEN [IdleLoad EXCEPT !.pc = "getUser"]
                        ELSE loads[id]]

\* useEffect(() => { loadGames() }, []): once, and once more under StrictMode
Mount ==
    /\ ~mounted
    /\ mounted' = TRUE
    /\ loads' = StartedLoads(IF strict THEN {"m1", "m2"} ELSE {"m1"})
    /\ loadingGames' = TRUE
    /\ error' = NullText
    /\ pageUser' = session
    /\ last' = Step("mount")
    /\ UNCHANGED <<formVars, adding, games, strict, tz, session, store, add, countVars>>

\* an addGame without a finally block
AfterLoadNoFinally(id) == UNCHANGED <<adding, add>>

\* what the end of the loadGames call id resumes: addGame awaits the call it
\* chained, and then only runs its finally block
AfterLoad(id) ==
    IF id = "chain"
    THEN /\ adding' = FALSE
         /\ add' = IdleAdd
    ELSE UNCHANGED <<adding, add>>

\* a catch block that also empties the list
LoadFailedClearsList(id, e, op) ==
    /\ error' = ErrText(e, "Failed to load games")
    /\ games' = <<>>
    /\ loadingGames' = FALSE
    /\ loads' = [loads EXCEPT ![id] = IdleLoad]
    /\ AfterLoad(id)
    /\ last' = [op |-> op, key |-> id, n |-> 0]
    /\ UNCHANGED <<formVars, envVars, countVars>>

\* a catch block that starts the call again
LoadFailedRetries(id, e, op) ==
    /\ error' = ErrText(e, "Failed to load games")
    /\ loadingGames' = TRUE
    /\ loads' = [loads EXCEPT ![id] = [IdleLoad EXCEPT !.pc = "getUser"]]
    /\ last' = [op |-> op, key |-> id, n |-> 0]
    /\ UNCHANGED <<formVars, adding, games, envVars, add, countVars>>

\* catch and finally of loadGames
LoadFailed(id, e, op) ==
    /\ error' = ErrText(e, "Failed to load games")
    /\ loadingGames' = FALSE
    /\ loads' = [loads EXCEPT ![id] = IdleLoad]
    /\ AfterLoad(id)
    /\ last' = [op |-> op, key |-> id, n |-> 0]
    /\ UNCHANGED <<formVars, games, envVars, countVars>>

\* await supabase.auth.getUser() returns an error
LoadAuthError(id, e) ==
    /\ loads[id].pc = "getUser"
    /\ LoadFailed(id, e, "load:authError")

\* await supabase.auth.getUser() returns no user
LoadNoUser(id) ==
    /\ loads[id].pc = "getUser"
    /\ UserMissing(session)
    /\ LoadFailed(id, NotSignedIn, "load:noUser")

\* await supabase.auth.getUser() returns the user: the query is sent
LoadQuerySent(id) ==
    /\ loads[id].pc = "getUser"
    /\ ~UserMissing(session)
    /\ loads' = [loads EXCEPT ![id] = [pc |-> "query", user |-> session, res |-> NoRes]]
    /\ last' = [op |-> "load:querySent", key |-> id, n |-> 0]
    /\ UNCHANGED <<formVars, viewVars, envVars, add, countVars>>

\* the store answers the query of the call id
ServerQuery(id) ==
    /\ loads[id].pc = "query"
    /\ \E r \in {Ok(rows) : rows \in QueryGames(store, loads[id].user, loads[id].user)}
                \cup {Failed(e) : e \in DbErrors} :
          loads' = [loads EXCEPT ![id] = [@ EXCEPT !.pc = "resp", !.res = r]]
    /\ last' = [op |-> "store:query", key |-> id, n |-> 0]
    /\ UNCHANGED <<formVars, viewVars, envVars, add, countVars>>

\* the query's await returns an error
LoadQueryError(id) ==
    /\ loads[id].pc = "resp"
    /\ ~loads[id].res.ok
    /\ LoadFailed(id, loads[id].res.err, "load:queryError")

\* a success path that also clears the message
LoadDoneClearsError(id) ==
    /\ loads[id].pc = "resp"
    /\ loads[id].res.ok
    /\ games' = loads[id].res.rows
    /\ error' = NullText
    /\ loadingGames' = FALSE
    /\ loads' = [loads EXCEPT ![id] = IdleLoad]
    /\ AfterLoad(id)
    /\ last' = [op |-> "load:done", key |-> id, n |-> Len(loads[id].res.rows)]
    /\ UNCHANGED <<formVars, envVars, countVars>>

\* an answer that is dropped once a list is displayed
LoadDoneFirstWins(id) ==
    /\ loads[id].pc = "resp"
    /\ loads[id].res.ok
    /\ games' = IF games = <<>> THEN loads[id].res.rows ELSE games
    /\ loadingGames' = FALSE
    /\ loads' = [loads EXCEPT ![id] = IdleLoad]
    /\ AfterLoad(id)
    /\ last' = [op |-> "load:done", key |-> id, n |-> Len(loads[id].res.rows)]
    /\ UNCHANGED <<formVars, error, envVars, countVars>>

\* the query's await returns rows: setGames(data ?? []), then finally
LoadDone(id) ==
    /\ loads[id].pc = "resp"
    /\ loads[id].res.ok
    /\ games' = loads[id].res.rows
    /\ loadingGames' = FALSE
    /\ loads' = [loads EXCEPT ![id] = IdleLoad]
    /\ AfterLoad(id)
    /\ last' = [op |-> "load:done", key |-> id, n |-> Len(loads[id].res.rows)]
    /\ UNCHANGED <<formVars, error, envVars, countVars>>

(* ------------------------------- addGame ------------------------------- *)
\* a button that is not disabled while adding
AddGamePressAnyTime ==
    /\ mounted
    /\ adds < MaxAdds
    /\ error' = NullText
    /\ adding' = TRUE
    /\ add' = [IdleAdd EXCEPT !.pc = "getUser", !.form = Form]
    /\ adds' = adds + 1
    /\ last' = Step("add:press")
    /\ UNCHANGED <<formVars, games, loadingGames, envVars, loads, taps, sessChanges>>

\* onClick of Add Game (disabled while adding): addGame up to its first await
AddGamePress ==
    /\ mounted
    /\ ~adding
    /\ adds < MaxAdds
    /\ error' = NullText
    /\ adding' = TRUE
    /\ add' = [IdleAdd EXCEPT !.pc = "getUser", !.form = Form]
    /\ adds' = adds + 1
    /\ last' = Step("add:press")
    /\ UNCHANGED <<formVars, games, loadingGames, envVars, loads, taps, sessChanges>>

\* a catch block that shows nothing
AddFailedSilent(e, op) ==
    /\ adding' = FALSE
    /\ add' = IdleAdd
    /\ last' = Step(op)
    /\ UNCHANGED <<formVars, error, games, loadingGames, envVars, loads, countVars>>

\* catch and finally of addGame
AddFailed(e, op) ==
    /\ error' = ErrText(e, "Failed to add game")
    /\ adding' = FALSE
    /\ add' = IdleAdd
    /\ last' = Step(op)
    /\ UNCHANGED <<formVars, games, loadingGames, envVars, loads, countVars>>

\* await supabase.auth.getUser() returns an error
AddAuthError(e) ==
    /\ add.pc = "getUser"
    /\ AddFailed(e, "add:authError")

\* await supabase.auth.getUser() returns no user
AddNoUser ==
    /\ add.pc = "getUser"
    /\ UserMissing(session)
    /\ AddFailed(NotSignedIn, "add:noUser")

\* getUser returns the user, and toPlayedAt throws: toISOString of an Invalid Date
AddInvalidDate ==
    /\ add.pc = "getUser"
    /\ ~UserMissing(session)
    /\ ClosureForm(add.form, Form).date = EmptyDate
    /\ AddFailed(InvalidTime, "add:invalidDate")

\* getUser returns the user: the insert is sent
AddInsertSent ==
    /\ add.pc = "getUser"
    /\ ~UserMissing(session)
    /\ ClosureForm(add.form, Form).date # EmptyDate
    /\ add' = [add EXCEPT !.pc = "insert",
                          !.user = session,
                          !.payload = InsertPayload(OwnerId(session, pageUser),
                                                    ClosureForm(add.form, Form), tz)]
    /\ last' = Step("add:insertSent")
    /\ UNCHANGED <<formVars, viewVars, envVars, loads, countVars>>

\* the store appends the row, or rejects the insert
ServerInsert ==
    /\ add.pc = "insert"
    /\ \/ /\ RlsPolicy(add.user, add.payload)
          /\ store' = InsertRow(store, add.payload)
          /\ add' = [add EXCEPT !.pc = "resp", !.res = Ok(<<>>)]
       \/ /\ \E e \in DbErrors : add' = [add EXCEPT !.pc = "resp", !.res = Failed(e)]
          /\ store' = store
    /\ last' = [op |-> "store:insert", key |-> "", n |-> Len(store') - Len(store)]
    /\ UNCHANGED <<formVars, viewVars, mounted, strict, tz, session, pageUser, loads,
                   countVars>>

\* the insert's await returns an error
AddInsertError ==
    /\ add.pc = "resp"
    /\ ~add.res.ok
    /\ AddFailed(add.res.err, "add:insertError")

\* a success path that resets the tally and returns without a refresh
AddInsertedNoRefresh ==
    /\ add.pc = "resp"
    /\ add.res.ok
    /\ faults' = FaultsAfterInsert(faults, add.form.faults)
    /\ adding' = FALSE
    /\ add' = IdleAdd
    /\ last' = [op |-> "add:inserted", key |-> "", n |-> TallySum(faults)]
    /\ UNCHANGED <<myPoints, oppPoints, location, date, time, error, games,
                   loadingGames, envVars, loads, countVars>>

\* the insert's await returns no error: setFaults(zeros), then loadGames() up
\* to its first await
AddInserted ==
    /\ add.pc = "resp"
    /\ add.res.ok
    /\ faults' = FaultsAfterInsert(faults, add.form.faults)
    /\ loadingGames' = TRUE
    /\ error' = NullText
    /\ loads' = StartedLoads({"chain"})
    /\ add' = [add EXCEPT !.pc = "chain"]
    /\ last' = [op |-> "add:inserted", key |-> "", n |-> TallySum(faults)]
    /\ UNCHANGED <<myPoints, oppPoints, location, date, time, adding, games,
                   envVars, countVars>>

(* -------------------------------- Next --------------------------------- *)
Next ==
    \/ \E key \in FaultKeys, delta \in {-1, 1} : changeFault(key, delta)
    \/ \E delta \in {-1, 1} : setMyPoints(delta)
    \/ \E delta \in {-1, 1} : setOppPoints(delta)
    \/ \E v \in LocationInputs : setLocation(v)
    \/ \E v \in DateInputs : setDate(v)
    \/ \E v \in TimeInputs : setTime(v)
    \/ \E u \in Users \cup {NoUser} : SessionChange(u)
    \/ Mount
    \/ \E id \in LoadIds, e \in AuthErrors : LoadAuthError(id, e)
    \/ \E id \in LoadIds : LoadNoUser(id)
    \/ \E id \in LoadIds : LoadQuerySent(id)
    \/ \E id \in LoadIds : ServerQuery(id)
    \/ \E id \in LoadIds : LoadQueryError(id)
    \/ \E id \in LoadIds : LoadDone(id)
    \/ AddGamePress
    \/ \E e \in AuthErrors : AddAuthError(e)
    \/ AddNoUser
    \/ AddInvalidDate
    \/ AddInsertSent
    \/ ServerInsert
    \/ AddInsertError
    \/ AddInserted

Spec == Init /\ [][Next]_vars

\* the steps of the loadGames call id and of the store on its behalf
LoadStep(id) ==
    \/ \E e \in AuthErrors : LoadAuthError(id, e)
    \/ LoadNoUser(id)
    \/ LoadQuerySent(id)
    \/ ServerQuery(id)
    \/ LoadQueryError(id)
    \/ LoadDone(id)

\* the steps of the addGame call and of the store on its behalf
AddStep ==
    \/ \E e \in AuthErrors : AddAuthError(e)
    \/ AddNoUser
    \/ AddInvalidDate
    \/ AddInsertSent
    \/ ServerInsert
    \/ AddInsertError
    \/ AddInserted

\* every await resolves: a call in flight takes its next step
Fairness ==
    /\ \A id \in LoadIds : WF_vars(LoadStep(id))
    /\ WF_vars(AddStep)

\* the page without the taps on the form that no path of a call depends on:
\* only the date, which toPlayedAt may throw on, is still edited
NextCalls ==
    \/ \E v \in DateInputs : setDate(v)
    \/ \E u \in Users \cup {NoUser} : SessionChange(u)
    \/ Mount
    \/ \E id \in LoadIds : LoadStep(id)
    \/ AddGamePress
    \/ AddStep

SpecFair == Init /\ [][NextCalls]_vars /\ Fairness

\* the same page over the table of earlier sessions
SpecSeeded == InitSeeded /\ [][Next]_vars

(* ============================== the claims ============================= *)

\* C1: in every reachable state each of the five Fault Tally counters is >= 0,
\* whatever taps and submissions came before.
FaultsNonNegative == \A k \in FaultKeys : faults[k] >= 0

\* a decrement tapped on a tally of zeros, after a submission
WitnessClampedAtZero ==
    /\ last.op = "changeFault"
    /\ last.n = -1
    /\ taps = 1
    /\ adds = 1
    /\ faults = ZeroFaults

\* C2: changeFault(key, +1) adds 1 to the named counter; changeFault(key, -1)
\* takes 1 off it when it is >= 1 and leaves it 0 when it is 0; the other
\* counters and the error message stay as they were.
ChangeFaultAdjusts ==
    [][(taps' = taps + 1 /\ last'.op = "changeFault") =>
        LET k == last'.key
            d == last'.n
        IN  /\ faults'[k] = IF d = 1 THEN faults[k] + 1
                            ELSE IF faults[k] >= 1 THEN faults[k] - 1 ELSE 0
            /\ \A j \in FaultKeys \ {k} : faults'[j] = faults[j]
            /\ error' = error]_vars

\* serve decremented from 2 to 1
WitnessDecrementAboveZero ==
    /\ last = [op |-> "changeFault", key |-> "serve", n |-> -1]
    /\ faults["serve"] = 1
    /\ faults["setup"] = 3

\* C3: in the state right after addGame's insert succeeded, the Fault Tally
\* is all zeros, also when counters were incremented while the insert was in
\* flight.
TallyZeroAfterInsert == last.op = "add:inserted" => faults = ZeroFaults

\* the insert succeeded on a tally that held more than the call had captured
WitnessResetAfterInFlightTap ==
    /\ last.op = "add:inserted"
    /\ last.n > TallySum(add.form.faults)
    /\ faults = ZeroFaults

\* C4: when the insert returns an error, addGame leaves every counter of the
\* tally as it was and sets the error message to the error's own message.
InsertErrorKeepsTally ==
    [][(add.pc = "resp" /\ ~add.res.ok /\ add'.pc = "idle") =>
        /\ faults' = faults
        /\ add.res.err \in DbErrors
        /\ error' = add.res.err
        /\ ~adding']_vars

\* a rejected insert of a non-zero tally
WitnessInsertErrorTallyKept ==
    /\ last.op = "add:insertError"
    /\ faults # ZeroFaults
    /\ error \in DbErrors

\* C5: when addGame's getUser returns no user or an error, the call ends with
\* an error message and without sending an insert; the table is unchanged.
NoUserNoInsert ==
    [][(/\ add.pc = "getUser"
        /\ add'.pc # "getUser"
        /\ (session = NoUser \/ last'.op = "add:authError")) =>
        /\ add'.pc = "idle"
        /\ ~adding'
        /\ error' \in AuthErrors \cup {NotSignedIn}
        /\ store' = store]_vars

\* a submission that found nobody signed in
WitnessNoUserSubmission ==
    /\ last.op = "add:noUser"
    /\ error = NotSignedIn
    /\ session = NoUser
    /\ add.pc = "idle"

\* C6: every submission takes the row's owner from its own getUser call: the
\* insert it sends, and the row the store writes, carry the user signed in
\* when that call's getUser returned, and with nobody signed in at that
\* moment the submission fails without an insert, whoever was signed in when
\* the page mounted.
OwnerIsCallIdentity ==
    [][/\ (add.pc = "getUser" /\ add'.pc = "insert") =>
            /\ session \in Users
            /\ add'.user = session
            /\ add'.payload.user_id = session
       /\ Len(store') > Len(store) =>
            /\ add.pc = "insert"
            /\ store'[Len(store')].user_id = add.user
       /\ (add.pc = "getUser" /\ add'.pc # "getUser" /\ session = NoUser) =>
            /\ add'.pc = "idle"
            /\ error' \in AuthErrors \cup {NotSignedIn}]_vars

\* the page mounted signed in, the session ended, and a submission failed
WitnessExpiredAfterLoad ==
    /\ pageUser \in Users
    /\ session = NoUser
    /\ last.op = "add:noUser"
    /\ store = <<>>

\* C7: the insert of an addGame call that succeeds appends exactly one row,
\* identical inputs or not; an insert that fails, and every other step,
\* leaves the table as it was; no call sends a second insert.
OneRowPerSuccessfulAdd ==
    [][/\ (add.pc = "insert" /\ add'.pc = "resp" /\ add'.res.ok) =>
            Len(store') = Len(store) + 1
       /\ (add.pc = "insert" /\ add'.pc = "resp" /\ ~add'.res.ok) => store' = store
       /\ ~(add.pc = "insert" /\ add'.pc = "resp") => store' = store
       /\ add.pc \in {"resp", "chain"} => add'.pc # "insert"]_vars

\* two submissions of the same inputs left two rows that differ in id only
WitnessDuplicateRows ==
    /\ Len(store) = 2
    /\ store[1].id # store[2].id
    /\ [store[2] EXCEPT !.id = store[1].id] = store[1]

\* C8: the row a successful addGame writes carries the scores, the location
\* and the five fault counts of the form as it was when Add Game was pressed,
\* each count in its column, whatever was tapped afterwards; from an empty
\* table, submitting 11, 8, "Court 3" and no faults gives one row with these.
RowCarriesPressedForm ==
    [][/\ (add.pc = "idle" /\ add'.pc = "getUser") => add'.form = Form
       /\ (add.pc # "idle" /\ add'.pc # "idle") => add'.form = add.form
       /\ Len(store') > Len(store) =>
            LET r == store'[Len(store')]
                f == add.form
            IN  /\ r.my_points = f.myPoints
                /\ r.opp_points = f.oppPoints
                /\ r.location = LocationValue(f.location)
                /\ r.serve_faults = f.faults["serve"]
                /\ r.return_faults = f.faults["return"]
                /\ r.into_net = f.faults["net"]
                /\ r.too_long = f.faults["long"]
                /\ r.setup_kill = f.faults["setup"]
       /\ (/\ store = <<>>
           /\ Len(store') > 0
           /\ add.form.myPoints = 11
           /\ add.form.oppPoints = 8
           /\ add.form.location = Court3
           /\ add.form.faults = ZeroFaults) =>
            /\ Len(store') = 1
            /\ store'[1].my_points = 11
            /\ store'[1].opp_points = 8
            /\ store'[1].location = Court3
            /\ store'[1].serve_faults = 0
            /\ store'[1].return_faults = 0
            /\ store'[1].into_net = 0
            /\ store'[1].too_long = 0
            /\ store'[1].setup_kill = 0]_vars

\* serve was 2 at the press and tapped to 3 in flight: the row holds 2
WitnessRowKeepsPressedTally ==
    /\ add.pc = "resp"
    /\ add.res.ok
    /\ Len(store) = 1
    /\ store[1].serve_faults = 2
    /\ faults["serve"] = 3

\* C9: a row of the table stays where it is, with its id and every field, in
\* every later state: no step updates or deletes a row.
StoredRowsNeverChange ==
    [][\A i \in 1..Len(store) : i <= Len(store') /\ store'[i] = store[i]]_vars

\* a second row of the same user and time was written after the first
WitnessSecondRowBesideFirst ==
    /\ last.op = "store:insert"
    /\ Len(store) = 2
    /\ store[1].user_id = store[2].user_id
    /\ store[1].played_at = store[2].played_at
    /\ store[1].my_points # store[2].my_points

\* positions of the rows of st that uid owns
Owned(st, uid) == {i \in 1..Len(st) : st[i].user_id = uid}

\* C10: the answer to loadGames' query holds min(25, n) rows, n the number of
\* rows its user owns when the store answers; they are rows of that user,
\* each once, in descending played_at order, and no row left out is later
\* than one returned; a successful loadGames displays exactly that answer.
RecentGamesQuery ==
    [][\A id \in LoadIds :
        /\ (loads[id].pc = "query" /\ loads'[id].pc = "resp" /\ loads'[id].res.ok) =>
             LET r == loads'[id].res.rows
                 own == Owned(store, loads[id].user)
             IN  /\ Len(r) = Min(25, Cardinality(own))
                 /\ \A j \in 1..Len(r) : r[j].id \in own /\ r[j] = SelectCols(store[r[j].id])
                 /\ \A j, k \in 1..Len(r) :
                       j < k => r[j].id # r[k].id /\ r[j].played_at >= r[k].played_at
                 /\ \A i \in own :
                       (\A j \in 1..Len(r) : r[j].id # i) =>
                           \A j \in 1..Len(r) : store[i].played_at <= r[j].played_at
        /\ (loads[id].pc = "resp" /\ loads[id].res.ok /\ loads'[id].pc = "idle") =>
             games' = loads[id].res.rows]_vars

\* a list of 25 rows displayed for a user who owns more
WitnessLimitReached ==
    /\ last.op = "load:done"
    /\ Len(games) = 25
    /\ Cardinality(Owned(store, "u1")) > 25
    /\ games[1].played_at > games[25].played_at

\* C11: every row loadGames puts in the displayed list is owned by the user
\* that same call's getUser returned, and only loadGames changes the list:
\* no row of another user is ever displayed.
DisplayedRowsOwnedByCaller ==
    [][/\ \A id \in LoadIds :
            (loads[id].pc = "resp" /\ loads[id].res.ok /\ loads'[id].pc = "idle") =>
                \A j \in 1..Len(games') :
                    /\ games'[j].id \in 1..Len(store)
                    /\ store[games'[j].id].user_id = loads[id].user
       /\ games' # games =>
            \E id \in LoadIds :
                loads[id].pc = "resp" /\ loads[id].res.ok /\ loads'[id].pc = "idle"]_vars

\* 25 rows of u1 displayed while a row of u2 is later than the last of them
WitnessOtherUsersRowLeftOut ==
    /\ last.op = "load:done"
    /\ Len(games) = 25
    /\ \A j \in 1..25 : store[games[j].id].user_id = "u1"
    /\ \E i \in Owned(store, "u2") : store[i].played_at > games[25].played_at

\* the step on which load id takes a successful answer of the store
LoadCompletes(id) ==
    loads[id].pc = "resp" /\ loads[id].res.ok /\ loads'[id].pc = "idle"

\* the step on which the store answers the query of load id
QueryAnswered(id) ==
    loads[id].pc = "query" /\ loads'[id].pc = "resp"

\* an answer to a user who owns no rows: no rows, or a failure of the store
EmptyAnswer(res) ==
    IF res.ok THEN res.rows = <<>> ELSE res.err \in DbErrors

\* C12 as stated: when the user owns no rows, loadGames completes with an
\* empty games list and a null error message.
NoRowsEmptyListNullError ==
    [][\A id \in LoadIds :
        /\ (QueryAnswered(id) /\ Owned(store, loads[id].user) = {}) =>
                EmptyAnswer(loads'[id].res)
        /\ (LoadCompletes(id) /\ loads[id].res.rows = <<>>) =>
                games' = <<>> /\ error' = NullText]_vars

\* C12 amended: when the user owns no rows, the store answers with no rows
\* (not an error), and loadGames completes with an empty games list and
\* without writing the error message, which stays as it was: null, or the
\* message of another call that failed while this one was in flight.
NoRowsEmptyListErrorUntouched ==
    [][\A id \in LoadIds :
        /\ (QueryAnswered(id) /\ Owned(store, loads[id].user) = {}) =>
                EmptyAnswer(loads'[id].res)
        /\ (LoadCompletes(id) /\ loads[id].res.rows = <<>>) =>
                /\ games' = <<>>
                /\ error' = error]_vars

\* a load that found no rows has completed over the message of a failed addGame
WitnessEmptyLoadKeepsAddError ==
    /\ last.op = "load:done"
    /\ last.n = 0
    /\ games = <<>>
    /\ error # NullText
    /\ Len(store) = 0

\* the step on which load id ends in its catch block: getUser failed or
\* returned no user, or the store answered the query with an error
LoadFails(id) ==
    /\ loads[id].pc # "idle"
    /\ loads'[id].pc = "idle"
    /\ ~LoadCompletes(id)

rowFaults(g) ==
    [serve  |-> g.serve_faults,
     return |-> g.return_faults,
     net    |-> g.into_net,
     long   |-> g.too_long,
     setup  |-> g.setup_kill]

\* the comparator of the sort: new Date(a.played_at).getTime() - new Date(b.played_at).getTime()
CompareAsc(a, b) == a.played_at - b.played_at

\* an insertion that puts g before the rows that compare equal to it
InsertBeforeTies(sorted, g) ==
    LET k == Cardinality({i \in 1..Len(sorted) : CompareAsc(sorted[i], g) < 0})
    IN  SubSeq(sorted, 1, k) \o <<g>> \o SubSeq(sorted, k + 1, Len(sorted))

\* a sorted list with g put after every row the comparator does not put after g
InsertAsc(sorted, g) ==
    LET k == Cardinality({i \in 1..Len(sorted) : CompareAsc(sorted[i], g) <= 0})
    IN  SubSeq(sorted, 1, k) \o <<g>> \o SubSeq(sorted, k + 1, Len(sorted))

\* a sort that leaves the list in the order it came in
SortSkipped(gs) == gs

\* [...games].sort(comparator): a stable sort, rows that compare equal keep their order
RECURSIVE SortAsc(_)
SortAsc(gs) ==
    IF gs = <<>> THEN <<>>
    ELSE InsertAsc(SortAsc(SubSeq(gs, 1, Len(gs) - 1)), gs[Len(gs)])

\* totals after the map callback has run for the first k rows
RECURSIVE RunningTotals(_, _)
RunningTotals(sorted, k) ==
    IF k = 0 THEN ZeroFaults
    ELSE LET f == rowFaults(sorted[k])
             t == RunningTotals(sorted, k - 1)
         IN  [key \in FaultKeys |-> t[key] + f[key]]

\* a total that leaves one category out
TotalWithoutSetup(totals) ==
    totals["serve"] + totals["return"] + totals["net"] + totals["long"]

\* totalFaults
TotalFaults(totals) ==
    totals["serve"] + totals["return"] + totals["net"] + totals["long"] + totals["setup"]

\* the running total, not divided
Undivided(sum, n) == [num |-> sum, den |-> 1]

\* sum / gameNumber, kept as the exact quotient
Quotient(sum, n) == [num |-> sum, den |-> n]

\* the object the map callback returns for the row at index k - 1
TrendPoint(sorted, k, tzo) ==
    LET totals == RunningTotals(sorted, k)
        gameNumber == k
        totalFaults == TotalFaults(totals)
    IN  [label  |-> LocalDay(sorted[k].played_at, tzo),
         serve  |-> Quotient(totals["serve"], gameNumber),
         return |-> Quotient(totals["return"], gameNumber),
         net    |-> Quotient(totals["net"], gameNumber),
         long   |-> Quotient(totals["long"], gameNumber),
         setup  |-> Quotient(totals["setup"], gameNumber),
         total  |-> Quotient(totalFaults, gameNumber)]

\* a chart that shows one point at zero when there are no games
TrendWithPlaceholder(gs, tzo) ==
    IF Len(gs) = 0
    THEN <<[label |-> 0, serve |-> Quotient(0, 1), return |-> Quotient(0, 1),
            net |-> Quotient(0, 1), long |-> Quotient(0, 1),
            setup |-> Quotient(0, 1), total |-> Quotient(0, 1)]>>
    ELSE LET sorted == SortAsc(gs)
         IN  [k \in 1..Len(sorted) |-> TrendPoint(sorted, k, tzo)]

\* the function useMemo holds
FaultTrendData(gs, tzo) ==
    IF Len(gs) = 0 THEN <<>>
    ELSE LET sorted == SortAsc(gs)
         IN  [k \in 1..Len(sorted) |-> TrendPoint(sorted, k, tzo)]

\* what the chart of the page plots
faultTrendData == FaultTrendData(games, tz)

(* ---------- lists for the chart: a table of one user with ties ---------- *)
MaxTrendLen == 3

\* minutes after SeedBase at which the rows were played: two pairs share one
\* played_at, and the row inserted last was played first
TrendTimes == <<100, 100, 2000, 2000, 5000, 50>>

TrendServe == <<0, 3, 1, 1, 4, 2>>

TrendRow(i) ==
    [id            |-> i,
     user_id       |-> "u1",
     played_at     |-> SeedBase + TrendTimes[i],
     my_points     |-> 11,
     opp_points    |-> i,
     location      |-> NullLoc,
     serve_faults  |-> TrendServe[i],
     return_faults |-> i % 2,
     into_net      |-> i % 3,
     too_long      |-> 1,
     setup_kill    |-> IF i = 4 THEN 2 ELSE 0]

TrendStore == [i \in 1..Len(TrendTimes) |-> TrendRow(i)]

\* every list of at most MaxTrendLen different rows of the table, in every order
TrendLists ==
    UNION {{[j \in 1..n |-> SelectCols(TrendStore[ids[j]])] :
                ids \in {q \in [1..n -> 1..Len(TrendStore)] :
                            \A a, b \in 1..n : a # b => q[a] # q[b]}} :
           n \in 0..MaxTrendLen}

\* the mounted page at the moment the answer gs to its load arrives
InitTrend ==
    \E gs \in TrendLists :
        /\ faults = FreshForm.faults
        /\ myPoints = FreshForm.myPoints
        /\ oppPoints = FreshForm.oppPoints
        /\ location = FreshForm.location
        /\ date = FreshForm.date
        /\ time = FreshForm.time
        /\ adding = FALSE
        /\ error = NullText
        /\ games = <<>>
        /\ loadingGames = TRUE
        /\ mounted = TRUE
        /\ strict = FALSE
        /\ tz = LocalTz
        /\ session = "u1"
        /\ store = TrendStore
        /\ loads = [id \in LoadIds |->
                        IF id = "m1" THEN [pc |-> "resp", user |-> "u1", res |-> Ok(gs)]
                        ELSE IdleLoad]
        /\ add = IdleAdd
        /\ taps = 0
        /\ adds = 0
        /\ sessChanges = 0
        /\ pageUser = "u1"
        /\ last = [op |-> "store:query", key |-> "m1", n |-> 0]

\* setGames(data) and the render that recomputes the chart
NextTrend == \E id \in LoadIds : LoadDone(id)

SpecTrend == InitTrend /\ [][NextTrend]_vars

\* the orders of the list gs that are ascending by played_at
Chronological(gs) ==
    {[i \in 1..Len(gs) |-> gs[p[i]]] :
        p \in {q \in Permutations(1..Len(gs)) :
                \A i, j \in 1..Len(gs) : i < j => gs[q[i]].played_at <= gs[q[j]].played_at}}

\* the sum of one category over the first k rows of the list c
RECURSIVE SumFirst(_, _, _)
SumFirst(c, k, key) ==
    IF k = 0 THEN 0 ELSE SumFirst(c, k - 1, key) + rowFaults(c[k])[key]

\* the value v times k is the integer s
TimesIs(v, k, s) == v.den > 0 /\ v.num * k = s * v.den

\* C14: a list of N rows gives N points; at every position k and for every
\* category, the point's value times k is the sum of that category over the
\* first k rows in ascending played_at order; a single row gives its own
\* counts, and serve counts 2 then 4 give serve averages 2 then 3.
TrendRunningAverages ==
    LET t == faultTrendData
        N == Len(games)
    IN  /\ Len(t) = N
        /\ \E c \in Chronological(games) :
             /\ \A k \in 1..N, key \in FaultKeys : TimesIs(t[k][key], k, SumFirst(c, k, key))
             /\ N = 1 => \A key \in FaultKeys : TimesIs(t[1][key], 1, rowFaults(games[1])[key])
             /\ (N = 2 /\ c[1].serve_faults = 2 /\ c[2].serve_faults = 4) =>
                    TimesIs(t[1]["serve"], 1, 2) /\ TimesIs(t[2]["serve"], 1, 3)

\* the row with 4 serve faults is listed before the earlier row with 2
WitnessServeTwoThenFour ==
    /\ last.op = "load:done"
    /\ Len(games) = 2
    /\ games[1].serve_faults = 4 /\ games[2].serve_faults = 2
    /\ games[1].played_at > games[2].played_at
    /\ faultTrendData[2]["serve"] = [num |-> 6, den |-> 2]

\* the list gs with the row at position p[i] moved to position i
Reorder(gs, p) == [i \in 1..Len(gs) |-> gs[p[i]]]

\* p keeps rows that share one played_at in the order they have in gs
KeepsTies(gs, p) ==
    \A i, j \in 1..Len(gs) :
        (i < j /\ gs[p[i]].played_at = gs[p[j]].played_at) => p[i] < p[j]

\* the points of the trend t follow each other in ascending order of day
AscendingLabels(t) == \A k \in 1..(Len(t) - 1) : t[k].label <= t[k + 1].label

\* C15 as stated: every order of the same set of rows, rows sharing one
\* played_at included, gives the same trend, in ascending played_at order.
TrendIgnoresListOrder ==
    /\ \A p \in Permutations(1..Len(games)) :
            FaultTrendData(Reorder(games, p), tz) = faultTrendData
    /\ AscendingLabels(faultTrendData)

\* C15 amended: every order of the same set of rows that keeps the rows
\* sharing one played_at in the same relative order (so every order, when
\* the played_at are all different) gives the same trend, and the trend
\* follows ascending played_at order.
TrendIgnoresOrderUpToTies ==
    /\ \A p \in Permutations(1..Len(games)) :
            KeepsTies(games, p) => FaultTrendData(Reorder(games, p), tz) = faultTrendData
    /\ AscendingLabels(faultTrendData)

\* three rows on different days are listed out of order, and a list with two
\* rows of one played_at swapped would plot another trend
WitnessTieOrderShows ==
    /\ last.op = "load:done"
    /\ Len(games) = 3
    /\ games[1].played_at <= games[2].played_at
    /\ \E i, j \in 1..3 : i # j /\ games[i].played_at = games[j].played_at
    /\ \E p \in Permutations(1..3) :
            FaultTrendData(Reorder(games, p), tz) # faultTrendData

\* C16: an empty games list gives an empty trend (no point, no failure).
EmptyListEmptyTrend ==
    games = <<>> => faultTrendData = <<>> /\ Len(faultTrendData) = 0

\* a load has completed with no rows
WitnessLoadedNoGames ==
    /\ last.op = "load:done"
    /\ ~loadingGames
    /\ games = <<>>
    /\ faultTrendData = <<>>

\* the sum of the rows' own totals over the first k rows of the list c
RECURSIVE OwnTotalsFirst(_, _)
OwnTotalsFirst(c, k) ==
    IF k = 0 THEN 0 ELSE OwnTotalsFirst(c, k - 1) + TallySum(rowFaults(c[k]))

\* C17: at every position k, total times k is the sum of the five running
\* sums, which is the sum over the first k rows in ascending played_at order
\* of each row's own total.
TrendTotalIsSumOfCategories ==
    LET t == faultTrendData
    IN  \E c \in Chronological(games) :
            \A k \in 1..Len(games) :
                LET s == [key \in FaultKeys |-> (t[k][key].num * k) \div t[k][key].den]
                IN  /\ \A key \in FaultKeys : TimesIs(t[k][key], k, s[key])
                    /\ TimesIs(t[k].total, k, TallySum(s))
                    /\ TallySum(s) = OwnTotalsFirst(c, k)

\* the third point's total covers a row with setup faults
WitnessTotalWithSetup ==
    /\ last.op = "load:done"
    /\ Len(games) = 3
    /\ \E j \in 1..3 : games[j].setup_kill > 0
    /\ faultTrendData[3].total.num > faultTrendData[2].total.num
    /\ faultTrendData[3].total.den = 3

\* C18: toPlayedAt(date, time) is the instant whose local calendar date is
\* the given date and whose local time is the given hour:minute, in the
\* zone of the browser whatever its offset (checked on the played_at of
\* every insert that is sent).
PlayedAtIsLocalDateTime ==
    add.pc \in {"insert", "resp"} =>
        /\ LocalDay(add.payload.played_at, tz) = add.form.date
        /\ LocalMinuteOfDay(add.payload.played_at, tz) =
                TimeHours(add.form.time) * 60 + TimeMinutes(add.form.time)

\* w is the text loc without its leading and trailing spaces
IsTrimOf(w, loc) ==
    \E i \in 1..(Len(loc) + 1), j \in 0..Len(loc) :
        /\ w = SubSeq(loc, i, j)
        /\ \A k \in 1..(i - 1) : IsSpace(loc[k])
        /\ \A k \in (j + 1)..Len(loc) : IsSpace(loc[k])
        /\ w # <<>> => ~IsSpace(w[1]) /\ ~IsSpace(w[Len(w)])

\* C19: the location addGame writes is the form's location text trimmed; a
\* text that is empty or only spaces is written as null, never as an empty
\* string (the insert sent, and every row of the store).
LocationTrimmedOrNull ==
    /\ add.pc \in {"insert", "resp"} =>
            LET w == add.payload.location
                loc == add.form.location
            IN  /\ w # <<>>
                /\ IF \A k \in 1..Len(loc) : IsSpace(loc[k])
                   THEN w = NullLoc
                   ELSE w # NullLoc /\ IsTrimOf(w, loc)
    /\ \A i \in 1..Len(store) : store[i].location # <<>>

\* a row written from a padded text, then one from a text of spaces only
WitnessPaddedAndBlankLocation ==
    /\ Len(store) = 2
    /\ store[1].location = Court3
    /\ store[2].location = NullLoc
    /\ add.pc = "resp"
    /\ add.form.location = <<" ", " ">>

\* C20: in every reachable state myPoints and oppPoints are not negative
\* (the - button at 0 leaves 0), so the scores of every insert sent and of
\* every row written are not negative. Nothing relates the two scores.
ScoresNonNegative ==
    /\ myPoints >= 0
    /\ oppPoints >= 0
    /\ add.pc \in {"insert", "resp"} =>
            add.payload.my_points >= 0 /\ add.payload.opp_points >= 0
    /\ \A i \in 1..Len(store) :
            store[i].my_points >= 0 /\ store[i].opp_points >= 0

\* the - button of My Points pressed at 0, beside a written row with a score
\* of 0 against 1
WitnessDecrementAtZeroScore ==
    /\ last.op = "setMyPoints"
    /\ last.n < 0
    /\ myPoints = 0
    /\ Len(store) >= 1
    /\ store[1].my_points = 0
    /\ store[1].my_points < store[1].opp_points

\* the step on which the addGame call ends in its catch block
AddFails == add.pc \in {"getUser", "resp"} /\ add'.pc = "idle"

\* C21: every failure of getUser, of the insert or of the query inside
\* loadGames or addGame is caught by that call, which in the same step sets
\* the error message to a non-null text and runs its finally block; an
\* answer that carries an error is never taken as a success.
FailuresCaughtAndShown ==
    [][/\ \A id \in LoadIds :
            /\ LoadFails(id) => error' # NullText /\ ~loadingGames'
            /\ (loads[id].pc = "resp" /\ ~loads[id].res.ok /\ loads'[id] # loads[id]) =>
                    LoadFails(id) /\ error' = loads[id].res.err
       /\ AddFails => error' # NullText /\ ~adding'
       /\ (add.pc = "resp" /\ ~add.res.ok /\ add' # add) =>
                AddFails /\ error' = add.res.err]_vars

\* the insert was rejected and its message is shown
WitnessInsertErrorShown ==
    /\ last.op = "add:insertError"
    /\ error \in DbErrors
    /\ ~adding
    /\ add.pc = "idle"

\* the step is the effect of the mount
MountStep == ~mounted /\ mounted'

\* the step is a press of Add Game
PressStep == add.pc = "idle" /\ add'.pc = "getUser" /\ adds' = adds + 1

\* the step on which addGame takes the successful answer to its insert
InsertSucceeds == add.pc = "resp" /\ add.res.ok /\ add'.pc = "chain"

LastCompletedLoadWins ==
    [][\A id \in LoadIds :
            LoadCompletes(id) =>
                /\ games' = loads[id].res.rows
                /\ \A other \in LoadIds \ {id} : loads'[other] = loads[other]]_vars

\* the mount's load, answered before the insert, completed after the chained
\* load: the list is empty although the row is stored
WitnessStaleAnswerShown ==
    /\ last.op = "load:done"
    /\ last.key = "m1"
    /\ games = <<>>
    /\ Len(store) = 1
    /\ store[1].user_id = "u1"
    /\ adds = 1
    /\ add.pc = "idle"
    /\ error = NullText
    /\ \A id \in LoadIds : loads[id].pc = "idle"

\* C24: the step on which addGame takes a successful insert resets the
\* tally and starts exactly one loadGames call, which that addGame call
\* awaits before it ends; the chained call starts on no other step, and a
\* submission that fails starts no loadGames call.
InsertThenOneRefresh ==
    [][/\ (add.pc = "resp" /\ add.res.ok /\ add' # add) =>
            /\ add'.pc = "chain"
            /\ faults' = ZeroFaults
            /\ loads["chain"].pc = "idle" /\ loads'["chain"].pc = "getUser"
            /\ \A id \in LoadIds \ {"chain"} : loads'[id] = loads[id]
       /\ (loads'["chain"].pc = "getUser" /\ loads'["chain"] # loads["chain"]) =>
            add.pc = "resp" /\ add.res.ok
       /\ (add.pc = "chain" /\ add' # add) =>
            /\ add'.pc = "idle"
            /\ loads["chain"].pc # "idle" /\ loads'["chain"].pc = "idle"
       /\ AddFails => loads' = loads]_vars

\* a row is stored, the tally that held counts is reset and the chained
\* load has started beside the mount's load
WitnessRefreshStarted ==
    /\ last.op = "add:inserted"
    /\ add.pc = "chain"
    /\ add.form.faults # ZeroFaults
    /\ faults = ZeroFaults
    /\ loads["chain"].pc = "getUser"
    /\ loads["m1"].pc # "idle"
    /\ Len(store) = 1

\* the orders of the list gs that are ascending by played_at and keep rows
\* of one played_at in the order they have in gs
StableChronological(gs) ==
    {Reorder(gs, p) :
        p \in {q \in Permutations(1..Len(gs)) :
                /\ \A i, j \in 1..Len(gs) :
                        i < j => gs[q[i]].played_at <= gs[q[j]].played_at
                /\ KeepsTies(gs, q)}}

\* C25: the trend is aggregated over the rows in ascending played_at order,
\* rows with equal played_at in the relative order they have in the games
\* list (a stable sort).
TrendSortIsStable ==
    /\ StableChronological(games) = {SortAsc(games)}
    /\ \A c \in StableChronological(games) :
            \A k \in 1..Len(games), key \in FaultKeys :
                TimesIs(faultTrendData[k][key], k, SumFirst(c, k, key))

\* two rows of one played_at, 3 serve faults listed before 0: the first
\* point shows 3
WitnessTiedRowsKeepOrder ==
    /\ last.op = "load:done"
    /\ Len(games) = 2
    /\ games[1].played_at = games[2].played_at
    /\ games[1].serve_faults = 3 /\ games[2].serve_faults = 0
    /\ faultTrendData[1]["serve"] = [num |-> 3, den |-> 1]

\* C26: adding is true exactly from the press of Add Game until that
\* addGame call, its chained loadGames included, has finished; a press
\* happens only while adding is false and no addGame call is in flight, so
\* at most one insert is in flight at any time.
AddingCoversTheCall ==
    [][/\ adding' <=> add'.pc # "idle"
       /\ adds' # adds => ~adding /\ add.pc = "idle" /\ adding' /\ add'.pc = "getUser"
       /\ (add.pc = "chain" /\ loads'["chain"].pc # "idle") => adding']_vars

\* the second submission's insert is in flight; the first one has finished
WitnessSecondInsertInFlight ==
    /\ adding
    /\ adds = 2
    /\ add.pc = "insert"
    /\ Len(store) = 1
    /\ \A id \in LoadIds : loads[id].pc = "idle"

\* C27: in every reachable state, loadingGames is true whenever at least
\* one loadGames call is in flight, also when the mount's load and the load
\* chained after a submission overlap.
LoadingWhileAnyLoadInFlight ==
    (\E id \in LoadIds : loads[id].pc # "idle") => loadingGames

\* C28: if every await resolves, every addGame call sets adding back to
\* false and every loadGames call ends by setting loadingGames to false, on
\* the success path and on every failure path.
CallsEventuallyFinish ==
    /\ adding ~> ~adding
    /\ \A id \in LoadIds :
            (loads[id].pc # "idle") ~>
                (/\ loads[id].pc = "idle"
                 /\ ~loadingGames
                 /\ last.key = id
                 /\ last.op \in {"load:done", "load:authError", "load:noUser",
                                 "load:queryError"})

\* the user was signed out between the insert and the chained load: the
\* call ended on a failure path with both flags reset
WitnessFinishedOnFailurePath ==
    /\ last.op = "load:noUser"
    /\ last.key = "chain"
    /\ ~adding
    /\ ~loadingGames
    /\ Len(store) = 1
    /\ \A id \in LoadIds : loads[id].pc = "idle"

\* no loadGames and no addGame call is in flight
Quiet == add.pc = "idle" /\ \A id \in LoadIds : loads[id].pc = "idle"

\* the step ends a call in its catch block
FailureStep == AddFails \/ \E id \in LoadIds : LoadFails(id)

\* the step ends a call
CompletionStep == FailureStep \/ \E id \in LoadIds : LoadCompletes(id)

\* the step starts a call: each start runs setError(null)
StartStep == MountStep \/ PressStep \/ InsertSucceeds

\* C29 as stated: whenever no call is in flight, the error message is
\* non-null iff the operation completed last failed; the message stays
\* until the user starts another action.
ErrorTellsLastOperation ==
    [][/\ (CompletionStep /\ Quiet') => (error' # NullText <=> FailureStep)
       /\ (Quiet /\ error' # error) => StartStep]_vars

\* C29 amended: the error message is cleared exactly by the start of a call
\* and set exactly by a failure, and a call that completes successfully
\* leaves it as it is; so with no call in flight it is non-null iff a call
\* has failed since the most recent start of a call, and it stays until the
\* user starts another action.
ErrorTellsFailureSinceLastStart ==
    [][/\ StartStep => error' = NullText
       /\ FailureStep => error' # NullText
       /\ ~(StartStep \/ FailureStep) => error' = error
       /\ (Quiet /\ error' # error) => StartStep]_vars

\* the mount's load failed while the chained load was in flight; the chained
\* load then completed with the new row, and the message is still shown
WitnessErrorOutlivesLaterSuccess ==
    /\ Quiet
    /\ last.op = "load:done"
    /\ last.key = "chain"
    /\ Len(games) = 1
    /\ error # NullText
    /\ adds = 1

====
